---- MODULE Spec2Model ----
(***************************************************************************)
(* Reconciliation engine of koshai-assignment: identifier extraction       *)
(* (processors/statement.py get_pin), eligibility tagging (tag_statement,  *)
(* tag_settlement) and the matcher / variance aggregator                   *)
(* (processors/reconciler.py reconcile_data).                              *)
(*                                                                         *)
(* Each component is a pure function of its arguments, so each has its own *)
(* specification: Init draws the arguments from bounded sets and one       *)
(* action applies the whole function.                                      *)
(*   SpecPin  : get_pin                                                    *)
(*   SpecTag  : tag_statement / tag_settlement                             *)
(*   SpecJoin : reconcile_data, identifiers and tags vary                  *)
(*   SpecVar  : reconcile_data, amounts and amount columns vary            *)
(*   SpecUsd  : calc_usd_amount                                            *)
(***************************************************************************)
EXTENDS Integers, Sequences, FiniteSets, TLC

VARIABLES
    pc,                     \* position of the call being modelled
    txt,                    \* get_pin: argument
    pin,                    \* get_pin: return value
    df,                     \* tagger: argument (rows with Partner_Pin, Type)
    tagged,                 \* tagger: returned rows (Reconcile_Tag added)
    statement_df,           \* reconcile_data: argument
    settlement_df,          \* reconcile_data: argument
    statement_amount_col,   \* reconcile_data: argument
    settlement_amount_col,  \* reconcile_data: argument
    result,                 \* reconcile_data: returned dict
    retagged,               \* tagger: rows returned for its own output
    usd_df,                 \* calc_usd_amount: argument
    usd_out,                \* calc_usd_amount: the estimate_amount_usd column
    error                   \* exception propagated to the caller, or NoError

vars == <<pc, txt, pin, df, tagged, statement_df, settlement_df,
          statement_amount_col, settlement_amount_col, result, error,
                   retagged, usd_df, usd_out>>

(***************************************************************************)
(* Bounds of the model.                                                    *)
(***************************************************************************)
MaxDigits == 13     \* longest digit run of a get_pin argument
MaxPad    == 2      \* most trailing whitespace of a get_pin argument
MaxTagRows == 3     \* most rows of a tagger argument
MaxRows   == 2      \* most rows of each reconcile_data argument
MaxPin    == 2      \* identifiers are 1..MaxPin (NoPin: missing)
MaxAmt    == 3      \* numeric amounts are 0..MaxAmt
MaxUsdRows == 1     \* most rows of a calc_usd_amount argument

(***************************************************************************)
(* Text.  A str is a sequence of one-character strings.                    *)
(***************************************************************************)
Digits == {"0", "1", "2", "3", "4", "5", "6", "7", "8", "9"}
Spaces == {" ", "\t", "\n"}
UpperCase == <<"A","B","C","D","E","F","G","H","I","J","K","L","M",
               "N","O","P","Q","R","S","T","U","V","W","X","Y","Z">>
LowerCase == <<"a","b","c","d","e","f","g","h","i","j","k","l","m",
               "n","o","p","q","r","s","t","u","v","w","x","y","z">>

\* str.lower(), one character
LowerChar(c) ==
    IF \E i \in 1..26 : UpperCase[i] = c
    THEN LowerCase[CHOOSE i \in 1..26 : UpperCase[i] = c]
    ELSE c

\* str.lower()
Lower(s) == [i \in 1..Len(s) |-> LowerChar(s[i])]

\* str.strip(): leading and trailing whitespace removed
Strip(s) ==
    LET keep == {i \in 1..Len(s) : s[i] \notin Spaces}
    IN  IF keep = {} THEN <<>>
        ELSE LET lo == CHOOSE i \in keep : \A j \in keep : i <= j
                 hi == CHOOSE i \in keep : \A j \in keep : j <= i
             IN  SubSeq(s, lo, hi)

(***************************************************************************)
(* get_pin (processors/statement.py).                                      *)
(***************************************************************************)
PinLen == 11        \* \d{11}

\* a get_pin argument / result: a str, or None / NaN
Str(s)  == [isna |-> FALSE, s |-> s]
NoneStr == [isna |-> TRUE, s |-> <<>>]

\* re.search(r'(\d{11})\s*$', s): the start positions at which the pattern
\* matches: 11 digits, then only whitespace up to the end of the text
MatchStarts(s) ==
    {i \in 1..(Len(s) - PinLen + 1) :
        /\ \A j \in i..(i + PinLen - 1) : s[j] \in Digits
        /\ \A j \in (i + PinLen)..Len(s) : s[j] \in Spaces}

GetPin(t) ==
    IF t.isna THEN NoneStr
    ELSE LET starts == MatchStarts(t.s)
         IN  IF starts # {}
             THEN LET i == CHOOSE k \in starts : \A m \in starts : k <= m
                  IN  Str(SubSeq(t.s, i, i + PinLen - 1))
             ELSE NoneStr

\* the arguments tried: prefix, a digit run, suffix
DigitCycle == <<"1","2","3","4","5","6","7","8","9","0">>
DigitRun(n) == [i \in 1..n |-> DigitCycle[((i - 1) % 10) + 1]]
Pad(n) == [i \in 1..n |-> " "]
Prefixes == {<<>>, <<"r","e","f"," ">>, <<"x">>, <<"7"," ">>}
Suffixes == {Pad(n) : n \in 0..MaxPad} \cup {<<"x">>, <<"\n">>, <<" ","x">>}
Texts ==
    {NoneStr} \cup
    {Str(p \o DigitRun(n) \o q) : p \in Prefixes, n \in 0..MaxDigits, q \in Suffixes}

(***************************************************************************)
(* Values shared by the specifications.                                    *)
(***************************************************************************)
NoError == "none"
NoResult == [produced |-> FALSE]
NoDf == [columns |-> {}, rows |-> <<>>]
NoPin == 0                      \* a missing Partner_Pin (None / NaN)
Pins == 1..MaxPin
SR  == "Should Reconcile"
SNR == "Should Not Reconcile"

IdleTag == /\ df = NoDf
           /\ tagged = NoDf
           /\ retagged = NoDf
IdleUsd == /\ usd_df = <<>>
           /\ usd_out = <<>>
IdlePin == /\ txt = NoneStr
           /\ pin = NoneStr
IdleReconcile ==
    /\ statement_df = NoDf
    /\ settlement_df = NoDf
    /\ statement_amount_col = "Settle.Amt"
    /\ settlement_amount_col = "estimate_amount_usd"
    /\ result = NoResult

(***************************************************************************)
(* SpecPin: one call of get_pin.                                           *)
(***************************************************************************)
InitPin ==
    /\ pc = "start"
    /\ txt \in Texts
    /\ pin = NoneStr
    /\ IdleTag
    /\ IdleReconcile
    /\ error = NoError
    /\ IdleUsd

ExtractPin ==
    /\ pc = "start"
    /\ pin' = GetPin(txt)
    /\ pc' = "done"
    /\ UNCHANGED <<txt, df, tagged, statement_df, settlement_df,
                   statement_amount_col, settlement_amount_col, result, error,
                   retagged, usd_df, usd_out>>

NextPin == ExtractPin

SpecPin == InitPin /\ [][NextPin]_vars

\* the text without its trailing whitespace
TrimRight(s) ==
    LET keep == {i \in 1..Len(s) : s[i] \notin Spaces}
    IN  IF keep = {} THEN <<>>
        ELSE SubSeq(s, 1, CHOOSE i \in keep : \A j \in keep : j <= i)

\* the length of the digit run that ends the text
TrailingRun(s) ==
    LET nondigit == {i \in 1..Len(s) : s[i] \notin Digits}
    IN  IF nondigit = {} THEN Len(s)
        ELSE Len(s) - (CHOOSE i \in nondigit : \A j \in nondigit : j <= i)

\* C5: get_pin returns a value only when the text, trailing whitespace
\* dropped, ends in a digit run of exactly 11 digits, and then returns those
\* digits; a trailing run of any other length, shorter or longer, a run not
\* at the end and a missing text all give None.
C5_ExactlyElevenDigits ==
    pc = "done" =>
        LET t == TrimRight(txt.s)
        IN  IF ~txt.isna /\ TrailingRun(t) = PinLen
            THEN pin = Str(SubSeq(t, Len(t) - PinLen + 1, Len(t)))
            ELSE pin = NoneStr

(***************************************************************************)
(* Eligibility tagging (processors/statement.py, processors/settlement.py).*)
(* A tagger row is [Partner_Pin, Type].                                    *)
(***************************************************************************)
T_Cancel      == Str(<<"C","a","n","c","e","l">>)
T_CancelPad   == Str(<<" ","C","A","N","C","E","L"," ">>)
T_Purchase    == Str(<<"P","u","r","c","h","a","s","e">>)
T_DollarRecv  == Str(<<"D","o","l","l","a","r"," ","R","e","c","e","i","v","e","d"," ">>)
TypeValues    == {T_Cancel, T_CancelPad, T_Purchase, T_DollarRecv, NoneStr}

\* df['Type'].str.strip().str.lower() == lit ; a missing Type compares False
TypeIs(t, lit) == ~t.isna /\ Lower(Strip(t.s)) = lit

IsDollarReceived(t) ==
    TypeIs(t, <<"d","o","l","l","a","r"," ","r","e","c","e","i","v","e","d">>)
IsCancel(t) == TypeIs(t, <<"c","a","n","c","e","l">>)

\* df[pin_col].value_counts(): counts per value, missing values dropped;
\* counts[counts > 1].index: the values that occur more than once
Dups(rows) ==
    {p \in {rows[i].Partner_Pin : i \in DOMAIN rows} \ {NoPin} :
        Cardinality({i \in DOMAIN rows : rows[i].Partner_Pin = p}) > 1}

\* the loop without its second assignment: no override for "cancel"
RECURSIVE DupLoop_NoOverride(_, _, _)
DupLoop_NoOverride(rows, tags, dups) ==
    IF dups = {} THEN tags
    ELSE LET p == CHOOSE x \in dups : \A y \in dups : x <= y
         IN  DupLoop_NoOverride(rows,
                 [i \in DOMAIN rows |->
                     IF rows[i].Partner_Pin = p THEN SNR ELSE tags[i]],
                 dups \ {p})

\* the loop `for p in dups` of both taggers, one iteration per value
RECURSIVE DupLoop(_, _, _)
DupLoop(rows, tags, dups) ==
    IF dups = {} THEN tags
    ELSE LET p == CHOOSE x \in dups : \A y \in dups : x <= y
         IN  IF p = NoPin THEN DupLoop(rows, tags, dups \ {p})
             ELSE LET m  == [i \in DOMAIN rows |-> rows[i].Partner_Pin = p]
                      t1 == [i \in DOMAIN rows |-> IF m[i] THEN SNR ELSE tags[i]]
                      t2 == [i \in DOMAIN rows |->
                                IF m[i] /\ IsCancel(rows[i].Type) THEN SR ELSE t1[i]]
                  IN  DupLoop(rows, t2, dups \ {p})

\* tag_statement without the blanket rule for "dollar received"
TagStatement_NoBlanket(rows) ==
    DupLoop(rows, [i \in DOMAIN rows |-> SR], Dups(rows))

\* tag_statement: the Reconcile_Tag column it computes
TagStatement(rows) ==
    LET t0 == [i \in DOMAIN rows |-> SR]
        t1 == [i \in DOMAIN rows |->
                  IF IsDollarReceived(rows[i].Type) THEN SNR ELSE t0[i]]
    IN  DupLoop(rows, t1, Dups(rows))

\* tag_settlement: the Reconcile_Tag column it computes
TagSettlement(rows) ==
    DupLoop(rows, [i \in DOMAIN rows |-> SR], Dups(rows))

\* a copy that loses the cells of Type
WithTags_TypeLost(d, tags) ==
    [columns |-> d.columns \cup {"Reconcile_Tag"},
     rows    |-> [i \in DOMAIN d.rows |->
                    [Partner_Pin |-> d.rows[i].Partner_Pin,
                     Type |-> NoneStr, Reconcile_Tag |-> tags[i]]]]

\* df.copy() with df['Reconcile_Tag'] assigned: the other columns are kept,
\* a Reconcile_Tag column the argument already has is overwritten
WithTags(d, tags) ==
    [columns |-> d.columns \cup {"Reconcile_Tag"},
     rows    |-> [i \in DOMAIN d.rows |->
                    [Partner_Pin |-> d.rows[i].Partner_Pin,
                     Type |-> d.rows[i].Type, Reconcile_Tag |-> tags[i]]]]

\* the rows a tagger argument is drawn from
TagRows == [Partner_Pin : {NoPin} \cup Pins, Type : TypeValues]

InitTag ==
    /\ pc = "start"
    /\ \E n \in 0..MaxTagRows :
          \E rs \in [1..n -> TagRows] :
              df = [columns |-> {"Partner_Pin", "Type"}, rows |-> rs]
    /\ tagged = NoDf
    /\ retagged = NoDf
    /\ IdlePin
    /\ IdleReconcile
    /\ error = NoError
    /\ IdleUsd

TagStatementCall ==
    /\ pc = "start"
    /\ tagged' = WithTags(df, TagStatement(df.rows))
    /\ pc' = "statement"
    /\ UNCHANGED <<txt, pin, df, statement_df, settlement_df,
                   statement_amount_col, settlement_amount_col, result, error,
                   retagged, usd_df, usd_out>>

TagSettlementCall ==
    /\ pc = "start"
    /\ tagged' = WithTags(df, TagSettlement(df.rows))
    /\ pc' = "settlement"
    /\ UNCHANGED <<txt, pin, df, statement_df, settlement_df,
                   statement_amount_col, settlement_amount_col, result, error,
                   retagged, usd_df, usd_out>>

\* tag_statement called on the frame it returned
RetagStatement ==
    /\ pc = "statement"
    /\ retagged' = WithTags(tagged, TagStatement(tagged.rows))
    /\ pc' = "statement again"
    /\ UNCHANGED <<txt, pin, df, tagged, statement_df, settlement_df,
                   statement_amount_col, settlement_amount_col, result, error,
                   usd_df, usd_out>>

\* tag_settlement called on the frame it returned
RetagSettlement ==
    /\ pc = "settlement"
    /\ retagged' = WithTags(tagged, TagSettlement(tagged.rows))
    /\ pc' = "settlement again"
    /\ UNCHANGED <<txt, pin, df, tagged, statement_df, settlement_df,
                   statement_amount_col, settlement_amount_col, result, error,
                   usd_df, usd_out>>

NextTag ==
    \/ TagStatementCall
    \/ TagSettlementCall
    \/ RetagStatement
    \/ RetagSettlement

SpecTag == InitTag /\ [][NextTag]_vars

\* the spellings of the override type among TypeValues
CancelSpellings == {T_Cancel, T_CancelPad}

\* row i of the tagger's argument belongs to a duplicate group
InDupGroup(i) ==
    /\ df.rows[i].Partner_Pin # NoPin
    /\ \E j \in DOMAIN df.rows : j # i /\ df.rows[j].Partner_Pin = df.rows[i].Partner_Pin

\* C2: in both tagger variants the final tag of every member of a duplicate
\* group (more than one row with the same non-missing identifier) is decided
\* by the duplicate rule alone: Should Reconcile iff its type, trimmed and
\* lower-cased, is "cancel", whatever the blanket type rule set before.
C2_DuplicateRuleWins ==
    pc \in {"statement", "settlement"} =>
        /\ Len(tagged.rows) = Len(df.rows)
        /\ \A i \in DOMAIN df.rows :
              InDupGroup(i) =>
                  /\ tagged.rows[i].Reconcile_Tag \in {SR, SNR}
                  /\ tagged.rows[i].Reconcile_Tag = SR
                        <=> df.rows[i].Type \in CancelSpellings

\* a statement duplicate group holding a blanket-disqualified row, a
\* purchase and a cancel: only the cancel is left to reconcile
C2_Witness ==
    /\ pc = "statement"
    /\ \E i, j, k \in DOMAIN df.rows :
          /\ InDupGroup(i) /\ InDupGroup(j) /\ InDupGroup(k)
          /\ df.rows[i].Partner_Pin = df.rows[j].Partner_Pin
          /\ df.rows[j].Partner_Pin = df.rows[k].Partner_Pin
          /\ df.rows[i].Type = T_DollarRecv /\ tagged.rows[i].Reconcile_Tag = SNR
          /\ df.rows[j].Type = T_Purchase /\ tagged.rows[j].Reconcile_Tag = SNR
          /\ df.rows[k].Type = T_CancelPad /\ tagged.rows[k].Reconcile_Tag = SR

\* the spellings of the blanket-disqualifying type among TypeValues
DollarSpellings == {T_DollarRecv}

\* C11: a row outside every duplicate group (its identifier is missing, or
\* no other row of the frame shares it) is not touched by the duplicate rule;
\* rows with a missing identifier are not grouped together; such a statement
\* row is Should Not Reconcile iff its type, trimmed and lower-cased, is
\* "dollar received", and such a settlement row is always Should Reconcile.
C11_UngroupedRows ==
    /\ pc = "statement" =>
          \A i \in DOMAIN df.rows :
              ~InDupGroup(i) =>
                  /\ tagged.rows[i].Reconcile_Tag \in {SR, SNR}
                  /\ tagged.rows[i].Reconcile_Tag = SNR
                        <=> df.rows[i].Type \in DollarSpellings
    /\ pc = "settlement" =>
          \A i \in DOMAIN df.rows :
              ~InDupGroup(i) => tagged.rows[i].Reconcile_Tag = SR

\* a statement frame with two rows without identifier, a purchase and a
\* "dollar received", beside a row that has one: the two are not grouped
C11_Witness ==
    /\ pc = "statement"
    /\ \E i, j, k \in DOMAIN df.rows :
          /\ i # j
          /\ df.rows[i].Partner_Pin = NoPin /\ df.rows[j].Partner_Pin = NoPin
          /\ df.rows[i].Type = T_Purchase /\ tagged.rows[i].Reconcile_Tag = SR
          /\ df.rows[j].Type = T_DollarRecv /\ tagged.rows[j].Reconcile_Tag = SNR
          /\ df.rows[k].Partner_Pin # NoPin

Num(n)   == [k |-> "num", v |-> n]      \* the number n
NumStr(n) == [k |-> "numstr", v |-> n]  \* the string that spells the number n
Dec2(h)  == [k |-> "dec2", v |-> h]     \* the number h / 100 (2 decimals)
Text     == [k |-> "str", v |-> 0]      \* a non-numeric string
NaN      == [k |-> "nan", v |-> 0]
None     == [k |-> "none", v |-> 0]
Inf(sgn) == [k |-> "inf", v |-> sgn]    \* +inf (1) or -inf (-1)

IsNull(x) == x.k \in {"nan", "none"}

\* pd.to_numeric(x, errors='coerce')
ToNumeric(x) == IF x.k \in {"num", "numstr"} THEN Num(x.v) ELSE NaN

\* float subtraction a - b
Sub(a, b) == IF a.k = "num" /\ b.k = "num" THEN Num(a.v - b.v) ELSE NaN

\* n / d rounded to the nearest integer, ties to even (d > 0)
RoundHalfEven(n, d) ==
    LET q == n \div d
        r == n % d
    IN  IF 2 * r < d THEN q
        ELSE IF 2 * r > d THEN q + 1
        ELSE IF q % 2 = 0 THEN q ELSE q + 1

\* the percentage cut to 2 decimals instead of rounded
PercentTruncated(var, st) ==
    IF var.k # "num" \/ st.k # "num" THEN NaN
    ELSE IF st.v = 0
         THEN IF var.v = 0 THEN NaN ELSE Inf(IF var.v > 0 THEN 1 ELSE -1)
         ELSE Dec2((var.v * 10000) \div st.v)

\* (var / st * 100).round(2) in float arithmetic: a zero divisor gives an
\* infinity (NaN for 0 / 0), a NaN operand gives NaN
Percent(var, st) ==
    IF var.k # "num" \/ st.k # "num" THEN NaN
    ELSE IF st.v = 0
         THEN IF var.v = 0 THEN NaN ELSE Inf(IF var.v > 0 THEN 1 ELSE -1)
         ELSE IF st.v > 0 THEN Dec2(RoundHalfEven(var.v * 10000, st.v))
         ELSE Dec2(RoundHalfEven(-(var.v * 10000), -st.v))


(***************************************************************************)
(* calc_usd_amount (processors/settlement.py).  An argument row is         *)
(* [payout, rate]: the cells of PayoutRoundAmt and APIRate.                *)
(***************************************************************************)
Frac(n, d) == [k |-> "frac", v |-> n, den |-> d]    \* the number n / d

\* float division a / b
Div(a, b) ==
    IF a.k # "num" \/ b.k # "num" THEN NaN
    ELSE IF b.v = 0
         THEN IF a.v = 0 THEN NaN ELSE Inf(IF a.v > 0 THEN 1 ELSE -1)
         ELSE Frac(a.v, b.v)

\* calc without the test of the rate
Calc_NoZeroGuard(payout, rate) == Div(payout, rate)

\* calc(row), the columns already numeric: NaN != 0 is true
Calc(payout, rate) ==
    IF rate # Num(0) THEN Div(payout, rate) ELSE None

\* the estimate_amount_usd column calc_usd_amount computes
CalcUsdAmount(rows) ==
    [i \in DOMAIN rows |-> Calc(ToNumeric(rows[i].payout), ToNumeric(rows[i].rate))]

UsdCells == {NaN, Text} \cup {Num(n) : n \in 0..MaxAmt} \cup {NumStr(n) : n \in 0..MaxAmt}

InitUsd ==
    /\ pc = "start"
    /\ \E n \in 1..MaxUsdRows : usd_df \in [1..n -> [payout : UsdCells, rate : UsdCells]]
    /\ usd_out = <<>>
    /\ IdlePin
    /\ IdleTag
    /\ IdleReconcile
    /\ error = NoError

CalcUsdAmountCall ==
    /\ pc = "start"
    /\ usd_out' = CalcUsdAmount(usd_df)
    /\ pc' = "usd done"
    /\ UNCHANGED <<txt, pin, df, tagged, retagged, statement_df, settlement_df,
                   statement_amount_col, settlement_amount_col, result, error,
                   usd_df>>

NextUsd == CalcUsdAmountCall

SpecUsd == InitUsd /\ [][NextUsd]_vars

\* the cell parses as a number
Parses(c) == c.k \in {"num", "numstr"}

\* C13: the derived amount is null unless payout and rate both parse as
\* numbers and the rate is not zero, and then it is payout / rate; a zero
\* rate, a non-numeric payout and a non-numeric rate give null, never an
\* infinity and never an error.
C13_DerivedAmount ==
    pc = "usd done" =>
        /\ error = NoError
        /\ Len(usd_out) = Len(usd_df)
        /\ \A i \in DOMAIN usd_df :
              LET p == usd_df[i].payout
                  r == usd_df[i].rate
                  out == usd_out[i]
              IN  IF Parses(p) /\ Parses(r) /\ r.v # 0
                  THEN /\ out.k = "frac"
                       /\ out.den # 0
                       /\ out.v * r.v = p.v * out.den
                  ELSE out.k \in {"nan", "none"}

\* payout 3 at rate 0: None
C13_Witness ==
    /\ pc = "usd done"
    /\ \E i \in DOMAIN usd_df :
          /\ usd_df[i].payout = Num(3)
          /\ usd_df[i].rate \in {Num(0), NumStr(0)}
          /\ usd_out[i] = None

(***************************************************************************)
(* reconcile_data (processors/reconciler.py).                              *)
(* An argument row is [id, Partner_Pin, Reconcile_Tag, Amount]: id is a    *)
(* passthrough column, Amount the cell of the frame's amount column.       *)
(***************************************************************************)
StAmtCol  == "Settle.Amt"
SetAmtCol == "estimate_amount_usd"
NoTag == "absent"       \* the cell of a column the frame does not have

\* the cells of a row of the other frame in a left_only / right_only row
NaRow == [id |-> 0, Partner_Pin |-> NoPin, Reconcile_Tag |-> "NaN", Amount |-> NaN]

\* no filter on the tag
GetReconcilable_All(d) == d.rows

\* get_reconcilable, once 'Reconcile_Tag' is known to be a column
GetReconcilable(d) == SelectSeq(d.rows, LAMBDA r : r.Reconcile_Tag = SR)

\* the order of the join keys in the merged frame: sorted, missing last
KeyRank(k) == IF k = NoPin THEN MaxPin + 2 ELSE k

MergedRow(l, r, ind) ==
    [Partner_Pin |-> IF ind = "right_only" THEN r.Partner_Pin ELSE l.Partner_Pin,
     st |-> l, set |-> r, indicator |-> ind]

\* a join that keeps one counterpart per left row
KeyRows_FirstMatch(l, r) ==
    IF Len(l) > 0 /\ Len(r) > 0
    THEN [n \in 1..Len(l) |-> MergedRow(l[n], r[1], "both")]
    ELSE IF Len(l) > 0
    THEN [n \in 1..Len(l) |-> MergedRow(l[n], NaRow, "left_only")]
    ELSE [n \in 1..Len(r) |-> MergedRow(NaRow, r[n], "right_only")]

\* the rows of one key: every left row with every right row, or the rows of
\* the one side that has the key
KeyRows(l, r) ==
    IF Len(l) > 0 /\ Len(r) > 0
    THEN [n \in 1..(Len(l) * Len(r)) |->
            MergedRow(l[((n - 1) \div Len(r)) + 1], r[((n - 1) % Len(r)) + 1], "both")]
    ELSE IF Len(l) > 0
    THEN [n \in 1..Len(l) |-> MergedRow(l[n], NaRow, "left_only")]
    ELSE [n \in 1..Len(r) |-> MergedRow(NaRow, r[n], "right_only")]

RECURSIVE JoinKeys(_, _, _)
JoinKeys(L, R, keys) ==
    IF keys = {} THEN <<>>
    ELSE LET k == CHOOSE x \in keys : \A y \in keys : KeyRank(x) <= KeyRank(y)
         IN  KeyRows(SelectSeq(L, LAMBDA r : r.Partner_Pin = k),
                     SelectSeq(R, LAMBDA r : r.Partner_Pin = k))
             \o JoinKeys(L, R, keys \ {k})

\* pd.merge(st_merge, set_merge, on='Partner_Pin', how='outer',
\* indicator=True); pandas matches a missing key with a missing key
OuterJoin(L, R) ==
    JoinKeys(L, R, {L[i].Partner_Pin : i \in DOMAIN L}
                   \cup {R[i].Partner_Pin : i \in DOMAIN R})

\* the map with the key of statement-only rows misspelt: they map to NaN (0)
Category_LeftOnlyUnmapped(ind) ==
    CASE ind = "both" -> 5
      [] ind = "right_only" -> 6
      [] OTHER -> 0

\* merged['_merge'].map({'both': 5, 'right_only': 6, 'left_only': 7})
Category(ind) ==
    CASE ind = "both" -> 5
      [] ind = "right_only" -> 6
      [] ind = "left_only" -> 7

\* the variance computed without the test for the columns
HasColumn_Ignored(d, col) == TRUE

\* st_amt in merged.columns: the renamed columns of the statement frame are
\* all its columns but Partner_Pin
HasColumn(d, col) == col \in d.columns \ {"Partner_Pin"}

\* the cell of column `col` of a row; the model's frames have one amount
\* column each
Cell(r, col) == IF col \in {StAmtCol, SetAmtCol} THEN r.Amount ELSE NaN

\* Variance of a Category-5 row
VarianceOf(row, stCol, setCol) ==
    Sub(ToNumeric(Cell(row.set, setCol)), ToNumeric(Cell(row.st, stCol)))

\* the merged frame with Category, Variance and Variance_Percent
Categorized(st, setl, stCol, setCol) ==
    LET merged == OuterJoin(GetReconcilable(st), GetReconcilable(setl))
        any5   == \E i \in DOMAIN merged : Category(merged[i].indicator) = 5
        calc   == any5 /\ HasColumn(st, stCol) /\ HasColumn(setl, setCol)
    IN  [i \in DOMAIN merged |->
            LET m   == merged[i]
                cat == Category(m.indicator)
                var == IF calc /\ cat = 5 THEN VarianceOf(m, stCol, setCol) ELSE None
                pct == IF calc /\ cat = 5
                       THEN Percent(var, ToNumeric(Cell(m.st, stCol)))
                       ELSE None
            IN  [Partner_Pin |-> m.Partner_Pin, st |-> m.st, set |-> m.set,
                 Category |-> cat, Variance |-> var, Variance_Percent |-> pct]]

RECURSIVE SumSeq(_)
SumSeq(s) == IF s = <<>> THEN 0 ELSE Head(s) + SumSeq(Tail(s))

MaxSeq(s) == CHOOSE x \in {s[i] : i \in DOMAIN s} : \A i \in DOMAIN s : s[i] <= x
MinSeq(s) == CHOOSE x \in {s[i] : i \in DOMAIN s} : \A i \in DOMAIN s : x <= s[i]

\* the Variance column without dropna(): a null counts as 0
VarVals_KeepNull(cat5) == [i \in DOMAIN cat5 |-> cat5[i].Variance.v]

\* cat5['Variance'].dropna()
VarVals(cat5) ==
    LET kept == SelectSeq(cat5, LAMBDA r : ~IsNull(r.Variance))
    IN  [i \in DOMAIN kept |-> kept[i].Variance.v]

\* ReconciliationSummary; avg_variance is the fraction num / den
Summary(st, setl, cat5, cat6, cat7) ==
    LET var_vals == VarVals(cat5)
        n == Len(var_vals)
    IN  [total_statement_records  |-> Len(st.rows),
         total_settlement_records |-> Len(setl.rows),
         reconcilable_statement   |-> Len(GetReconcilable(st)),
         reconcilable_settlement  |-> Len(GetReconcilable(setl)),
         category_5_count |-> Len(cat5),
         category_6_count |-> Len(cat6),
         category_7_count |-> Len(cat7),
         total_variance |-> IF n > 0 THEN SumSeq(var_vals) ELSE 0,
         avg_variance   |-> IF n > 0 THEN [num |-> SumSeq(var_vals), den |-> n]
                            ELSE [num |-> 0, den |-> 1],
         max_variance   |-> IF n > 0 THEN MaxSeq(var_vals) ELSE 0,
         min_variance   |-> IF n > 0 THEN MinSeq(var_vals) ELSE 0]

\* the dict reconcile_data returns
ReconcileData(st, setl, stCol, setCol) ==
    LET merged == Categorized(st, setl, stCol, setCol)
        cat5 == SelectSeq(merged, LAMBDA r : r.Category = 5)
        cat6 == SelectSeq(merged, LAMBDA r : r.Category = 6)
        cat7 == SelectSeq(merged, LAMBDA r : r.Category = 7)
    IN  [produced |-> TRUE,
         category_5 |-> cat5, category_6 |-> cat6, category_7 |-> cat7,
         summary |-> Summary(st, setl, cat5, cat6, cat7),
         all_merged |-> merged]

\* no test for the column
HasTagColumn_Lenient(d) == TRUE

\* 'Reconcile_Tag' in df.columns
HasTagColumn(d) == "Reconcile_Tag" \in d.columns

\* one call reconcile_data(statement_df, settlement_df, stCol, setCol):
\* get_reconcilable raises ValueError for the first frame without
\* Reconcile_Tag, before anything is joined
Reconcile(stCol, setCol) ==
    /\ pc = "start"
    /\ statement_amount_col' = stCol
    /\ settlement_amount_col' = setCol
    /\ IF ~HasTagColumn(statement_df) \/ ~HasTagColumn(settlement_df)
       THEN /\ error' = "ValueError: missing Reconcile_Tag column"
            /\ result' = NoResult
            /\ pc' = "raised"
       ELSE /\ result' = ReconcileData(statement_df, settlement_df, stCol, setCol)
            /\ error' = NoError
            /\ pc' = "done"
    /\ UNCHANGED <<txt, pin, df, tagged, statement_df, settlement_df,
                   retagged, usd_df, usd_out>>

\* main.py: reconcile_data(statement_df, settlement_df), default columns
ReconcileDefault == Reconcile(StAmtCol, SetAmtCol)

\* api/main.py: the caller names the amount columns; "Amount" is a name
\* that is no column of either frame
ReconcileWithCols ==
    \E stCol \in {StAmtCol, "Amount"}, setCol \in {SetAmtCol, "Amount"} :
        /\ <<stCol, setCol>> # <<StAmtCol, SetAmtCol>>
        /\ Reconcile(stCol, setCol)

StColumns  == {"id", "Partner_Pin", StAmtCol}
SetColumns == {"id", "Partner_Pin", SetAmtCol}

\* a frame from its cells: f[i] gives row i's Partner_Pin, Reconcile_Tag
\* and Amount
Frame(cols, f) ==
    [columns |-> cols,
     rows |-> [i \in DOMAIN f |->
                 [id |-> i, Partner_Pin |-> f[i].Partner_Pin,
                  Reconcile_Tag |-> f[i].Reconcile_Tag, Amount |-> f[i].Amount]]]

Amounts == {NaN, Text} \cup {Num(n) : n \in 0..MaxAmt}

\* frames for the join: identifiers and tags vary; a frame may lack the
\* Reconcile_Tag column
JoinCells == [Partner_Pin : {NoPin} \cup Pins, Reconcile_Tag : {SR, SNR},
              Amount : {Num(1)}]
UntaggedCells == [Partner_Pin : {1}, Reconcile_Tag : {NoTag}, Amount : {Num(1)}]

JoinFrame(d, cols) ==
    \E n \in 0..MaxRows :
        \/ \E f \in [1..n -> JoinCells] : d = Frame(cols \cup {"Reconcile_Tag"}, f)
        \/ \E f \in [1..n -> UntaggedCells] : d = Frame(cols, f)

InitJoin ==
    /\ pc = "start"
    /\ JoinFrame(statement_df, StColumns)
    /\ JoinFrame(settlement_df, SetColumns)
    /\ statement_amount_col = StAmtCol
    /\ settlement_amount_col = SetAmtCol
    /\ result = NoResult
    /\ error = NoError
    /\ IdleUsd
    /\ IdlePin
    /\ IdleTag

NextJoin == ReconcileDefault

SpecJoin == InitJoin /\ [][NextJoin]_vars

\* frames for the variance: every row is tagged Should Reconcile and carries
\* identifier 1; amounts vary
VarCells == [Partner_Pin : {1}, Reconcile_Tag : {SR}, Amount : Amounts]

VarFrame(d, cols) ==
    \E n \in 0..MaxRows :
        \E f \in [1..n -> VarCells] : d = Frame(cols \cup {"Reconcile_Tag"}, f)

InitVar ==
    /\ pc = "start"
    /\ VarFrame(statement_df, StColumns)
    /\ VarFrame(settlement_df, SetColumns)
    /\ statement_amount_col = StAmtCol
    /\ settlement_amount_col = SetAmtCol
    /\ result = NoResult
    /\ error = NoError
    /\ IdleUsd
    /\ IdlePin
    /\ IdleTag

NextVar == ReconcileDefault \/ ReconcileWithCols

SpecVar == InitVar /\ [][NextVar]_vars

(***************************************************************************)
(* Properties of reconcile_data.                                           *)
(***************************************************************************)
Range(s) == {s[i] : i \in DOMAIN s}

\* the rows of a frame tagged Should Reconcile
Eligible(d) == {r \in Range(d.rows) : r.Reconcile_Tag = SR}

\* the Should Reconcile rows of a frame that carry identifier k
Carrying(d, k) == {r \in Eligible(d) : r.Partner_Pin = k}

\* the rows of category c with join key k in the returned merged frame
RowsOf(c, k) == {m \in Range(result.all_merged) : m.Category = c /\ m.Partner_Pin = k}

\* the rows an outer join on identifier has for key k: the product of the
\* two sides' counts when both have the key, else the count of the one side
KeyCount(k) ==
    LET a == Cardinality(Carrying(statement_df, k))
        b == Cardinality(Carrying(settlement_df, k))
    IN  IF a > 0 /\ b > 0 THEN a * b ELSE a + b

RECURSIVE SumKeyCounts(_)
SumKeyCounts(K) ==
    IF K = {} THEN 0
    ELSE LET k == CHOOSE x \in K : TRUE IN KeyCount(k) + SumKeyCounts(K \ {k})

\* the row count of the outer join of the Should Reconcile rows
JoinRowCount == SumKeyCounts({NoPin} \cup Pins)

\* C1: every row of the outer join gets exactly one Category in {5, 6, 7},
\* the three returned collections are pairwise disjoint and cover the join,
\* and the three counts add up to the row count of the outer join over the
\* Should Reconcile rows of the two frames.
C1_PartitionComplete ==
    result.produced =>
        LET c5 == Range(result.category_5)
            c6 == Range(result.category_6)
            c7 == Range(result.category_7)
            sm == result.summary
        IN  /\ \A m \in Range(result.all_merged) : m.Category \in {5, 6, 7}
            /\ c5 \cap c6 = {} /\ c5 \cap c7 = {} /\ c6 \cap c7 = {}
            /\ c5 \cup c6 \cup c7 = Range(result.all_merged)
            /\ sm.category_5_count = Cardinality(c5)
            /\ sm.category_6_count = Cardinality(c6)
            /\ sm.category_7_count = Cardinality(c7)
            /\ sm.category_5_count + sm.category_6_count + sm.category_7_count
                  = Len(result.all_merged)
            /\ Len(result.all_merged) = JoinRowCount

\* a join with rows of all three categories
C1_Witness ==
    /\ result.produced
    /\ result.summary.category_5_count > 0
    /\ result.summary.category_6_count > 0
    /\ result.summary.category_7_count > 0

\* C3: only Should Reconcile rows enter the matcher: every statement /
\* settlement side of a joined row is a Should Reconcile row of the input (or
\* empty), no Should Not Reconcile row appears in any collection, and
\* reconcilable_statement / reconcilable_settlement count the Should
\* Reconcile rows of each input.
C3_OnlyEligibleEnter ==
    result.produced =>
        LET all == Range(result.all_merged) \cup Range(result.category_5)
                   \cup Range(result.category_6) \cup Range(result.category_7)
        IN  /\ \A m \in all :
                  /\ m.st = NaRow \/ m.st \in Eligible(statement_df)
                  /\ m.set = NaRow \/ m.set \in Eligible(settlement_df)
            /\ \A r \in Range(statement_df.rows) :
                  r.Reconcile_Tag = SNR => \A m \in all : m.st.id # r.id
            /\ \A r \in Range(settlement_df.rows) :
                  r.Reconcile_Tag = SNR => \A m \in all : m.set.id # r.id
            /\ result.summary.reconcilable_statement
                  = Cardinality(Eligible(statement_df))
            /\ result.summary.reconcilable_settlement
                  = Cardinality(Eligible(settlement_df))

\* a Should Not Reconcile statement row whose identifier a reconcilable
\* settlement row carries: the settlement row ends alone, in Category 6
C3_Witness ==
    /\ result.produced
    /\ \E r \in Range(statement_df.rows), q \in Eligible(settlement_df) :
          /\ r.Reconcile_Tag = SNR
          /\ r.Partner_Pin # NoPin
          /\ r.Partner_Pin = q.Partner_Pin
          /\ Carrying(statement_df, r.Partner_Pin) = {}
          /\ \E m \in Range(result.category_6) : m.set = q

\* C4: every Should Reconcile row appears in at least one joined row, and in
\* exactly one unless the other side holds more than one Should Reconcile
\* row with the same identifier; an identifier carried by s statement and t
\* settlement rows yields s*t Category-5 rows when s > 0 and t > 0, s
\* Category-7 rows when t = 0 and t Category-6 rows when s = 0.
\* (Identifiers are compared as the join compares them.)
C4_JoinMultiplicity ==
    result.produced =>
        LET all == Range(result.all_merged)
        IN  /\ \A r \in Eligible(statement_df) :
                  LET n == Cardinality({m \in all : m.st = r})
                  IN  /\ n >= 1
                      /\ Cardinality(Carrying(settlement_df, r.Partner_Pin)) <= 1
                            => n = 1
            /\ \A r \in Eligible(settlement_df) :
                  LET n == Cardinality({m \in all : m.set = r})
                  IN  /\ n >= 1
                      /\ Cardinality(Carrying(statement_df, r.Partner_Pin)) <= 1
                            => n = 1
            /\ \A k \in Pins :
                  LET a == Cardinality(Carrying(statement_df, k))
                      b == Cardinality(Carrying(settlement_df, k))
                  IN  /\ Cardinality(RowsOf(5, k)) = a * b
                      /\ Cardinality(RowsOf(7, k)) = (IF b = 0 THEN a ELSE 0)
                      /\ Cardinality(RowsOf(6, k)) = (IF a = 0 THEN b ELSE 0)
            /\ Len(result.all_merged) = Cardinality(all)

\* two statement rows and two settlement rows share an identifier: four
\* Category-5 rows
C4_Witness ==
    /\ result.produced
    /\ \E k \in Pins :
          /\ Cardinality(Carrying(statement_df, k)) = 2
          /\ Cardinality(Carrying(settlement_df, k)) = 2
          /\ Cardinality(RowsOf(5, k)) = 4

\* C8: a frame without the Reconcile_Tag column makes reconcile_data raise
\* before anything is joined or summarised: no result is returned.
C8_MissingTagRaises ==
    (pc # "start" /\ ("Reconcile_Tag" \notin statement_df.columns
                      \/ "Reconcile_Tag" \notin settlement_df.columns))
        => /\ pc = "raised"
           /\ error # NoError
           /\ result = NoResult

\* the call raised although the statement frame was well formed and had
\* rows to reconcile
C8_Witness ==
    /\ pc = "raised"
    /\ "Reconcile_Tag" \in statement_df.columns
    /\ Eligible(statement_df) # {}
    /\ "Reconcile_Tag" \notin settlement_df.columns
    /\ Len(settlement_df.rows) > 0

(***************************************************************************)
(* Properties of the variance and the summary.                             *)
(***************************************************************************)
\* the amount columns the call names are columns of the frames
AmountColsPresent ==
    /\ statement_amount_col \in statement_df.columns
    /\ settlement_amount_col \in settlement_df.columns

Undefined(x) == x.k = "inf"

\* C6: for a Category-5 pair whose statement amount is missing, non-numeric
\* or zero the Variance_Percent is null, never infinite; when the statement
\* amount is missing or non-numeric the Variance is null too.
C6_NoUndefinedPercent ==
    (result.produced /\ AmountColsPresent) =>
        \A m \in Range(result.category_5) :
            /\ (m.st.Amount.k # "num" \/ m.st.Amount = Num(0))
                  => /\ ~Undefined(m.Variance_Percent)
                     /\ IsNull(m.Variance_Percent)
            /\ m.st.Amount.k # "num" => IsNull(m.Variance)

\* C7 as stated: a call naming an amount column that the frame does not
\* have fails: it raises and returns nothing.
C7_MissingAmountRaises ==
    (pc # "start" /\ ~AmountColsPresent)
        => /\ pc = "raised"
           /\ error # NoError
           /\ result = NoResult

\* C7 as the code has it: with both frames tagged, a call naming an amount
\* column that a frame does not have raises nothing and returns the whole
\* result: the join and the counts as usual, Variance and Variance_Percent
\* None on every row, the four variance statistics 0.0.
C7_MissingAmountSkipsVariance ==
    (pc # "start" /\ ~AmountColsPresent
       /\ "Reconcile_Tag" \in statement_df.columns
       /\ "Reconcile_Tag" \in settlement_df.columns)
        => /\ pc = "done"
           /\ error = NoError
           /\ result.produced
           /\ Len(result.all_merged) = JoinRowCount
           /\ \A m \in Range(result.all_merged) :
                 m.Variance = None /\ m.Variance_Percent = None
           /\ result.summary.total_variance = 0
           /\ result.summary.avg_variance.num = 0
           /\ result.summary.max_variance = 0
           /\ result.summary.min_variance = 0

\* the statement amount column is missing, the pair has numeric amounts
\* that differ, and the call returned a Category-5 row without a variance
C7_Witness ==
    /\ pc = "done"
    /\ statement_amount_col \notin statement_df.columns
    /\ settlement_amount_col \in settlement_df.columns
    /\ \E m \in Range(result.category_5) :
          /\ m.st.Amount = Num(1) /\ m.set.Amount = Num(3)
          /\ m.Variance = None

Abs(x) == IF x < 0 THEN -x ELSE x

WithVariance == {m \in Range(result.all_merged) : m.Category = 5 /\ ~IsNull(m.Variance)}

RECURSIVE SumVariance(_)
SumVariance(S) ==
    IF S = {} THEN 0
    ELSE LET m == CHOOSE x \in S : TRUE IN m.Variance.v + SumVariance(S \ {m})

\* C10: the total, average, maximum and minimum variance of the summary are
\* those of exactly the Category-5 rows with a non-null Variance; when there
\* is no such row all four are 0.0.
C10_SummaryStatistics ==
    result.produced =>
        LET sm == result.summary
            S  == WithVariance
        IN  IF S = {}
            THEN /\ sm.total_variance = 0
                 /\ sm.avg_variance.num = 0 /\ sm.avg_variance.den # 0
                 /\ sm.max_variance = 0
                 /\ sm.min_variance = 0
            ELSE /\ sm.total_variance = SumVariance(S)
                 /\ sm.avg_variance.den > 0
                 /\ sm.avg_variance.num * Cardinality(S)
                       = SumVariance(S) * sm.avg_variance.den
                 /\ \E m \in S : m.Variance.v = sm.max_variance
                 /\ \A m \in S : m.Variance.v <= sm.max_variance
                 /\ \E m \in S : m.Variance.v = sm.min_variance
                 /\ \A m \in S : m.Variance.v >= sm.min_variance

\* four Category-5 rows, two of them without a Variance; the statistics are
\* those of the other two
C10_Witness ==
    /\ result.produced
    /\ Len(result.category_5) = 4
    /\ Cardinality(WithVariance) = 2
    /\ result.summary.min_variance = -1
    /\ result.summary.max_variance = 2
    /\ result.summary.total_variance = 1
    /\ result.summary.avg_variance = [num |-> 1, den |-> 2]

\* Category-5 rows exist and none has a Variance: the 0.0 fallback
C10_FallbackReached ==
    /\ result.produced
    /\ Len(result.category_5) > 0
    /\ WithVariance = {}
    /\ AmountColsPresent

\* C14: rows with a missing identifier are never matched to each other: every
\* category-5 row has an identifier, a Should Reconcile statement row with a
\* missing identifier appears only in category 7 and a Should Reconcile
\* settlement row with a missing identifier appears only in category 6.
C14_MissingPinNeverMatched ==
    result.produced =>
        /\ \A m \in Range(result.category_5) : m.Partner_Pin # NoPin
        /\ \A r \in Eligible(statement_df) :
              r.Partner_Pin = NoPin =>
                  /\ \E m \in Range(result.category_7) : m.st = r
                  /\ \A m \in Range(result.all_merged) : m.st = r => m.Category = 7
        /\ \A r \in Eligible(settlement_df) :
              r.Partner_Pin = NoPin =>
                  /\ \E m \in Range(result.category_6) : m.set = r
                  /\ \A m \in Range(result.all_merged) : m.set = r => m.Category = 6

====
